---- MODULE Spec2Model ----
(***************************************************************************)
(* A model of hooks/ceilometer_hooks.py, the hook script of the ceilometer *)
(* charm.  One process invocation handles one event on one unit: __main__  *)
(* hands the event name to hooks.execute, the registered handler runs, and *)
(* assess_status closes the run.  Handlers are written as operators over a *)
(* record M, the view the running hook has of the world (its unit's local  *)
(* secret, the peer-stored secret, its relation data, and the trace of     *)
(* what the run did so far); an exception is the field M.raised, and a     *)
(* call after a raise is skipped.                                          *)
(***************************************************************************)
EXTENDS Naturals, Sequences, FiniteSets, TLC

\* ------------------------------------------------------------------ bounds
NumUnits == 2
MaxVips == 2
MaxAmqpUnits == 2

Units == 1..NumUnits
Self == CHOOSE u \in Units : \A v \in Units : u <= v

\* ------------------------------------------------------- values and strings
\* An optional value: <<>> is Python's None, <<v>> is the value v.
None == <<>>
Some(v) == <<v>>

\* A secret is a string, modelled as a sequence of characters.
Whitespace == {" "}
SecretChars == {"a", "b"}
\* uuid-like tokens a unit can generate: non-empty, free of whitespace.
GenSecrets == {<<c>> : c \in SecretChars}
\* What the peer relation can hold before any leader published: nothing, or
\* a blank value.
BlankSecrets == {<<>>, <<" ">>}

RECURSIVE lstrip(_)
lstrip(s) == IF s = <<>> \/ Head(s) \notin Whitespace THEN s ELSE lstrip(Tail(s))

RECURSIVE rstrip(_)
rstrip(s) ==
    IF s = <<>> \/ s[Len(s)] \notin Whitespace THEN s
    ELSE rstrip(SubSeq(s, 1, Len(s) - 1))

\* str.strip()
strip(s) == rstrip(lstrip(s))

Range(s) == {s[i] : i \in 1..Len(s)}

\* ------------------------------------------------------------------- state
VARIABLES
    leader,         \* the unit for which is_elected_leader is true
    localSecret,    \* per unit: the local shared-secret file (None: no file)
    peerSecret,     \* the peer-stored 'shared_secret' (None: key absent)
    peerWriters,    \* the leader predicate of every writer of 'shared_secret'
    httpsSite,      \* per unit: openstack_https_frontend enabled
    haRel,          \* per unit: the unit's settings on the ha relation
    pc,             \* "idle", or the place a running hook has reached
    frame,          \* the running hook's M at that place
    run             \* the trace of the last (or the running) invocation

vars == <<leader, localSecret, peerSecret, peerWriters, httpsSite, haRel, pc,
          frame, run>>

\* -------------------------------------------------------- the hook's view M
NoExc == ""

\* The trace fields of a fresh process.
NoTrace ==
    [raised |-> NoExc, handlers |-> <<>>, logs |-> <<>>, cmds |-> <<>>,
     restarts |-> <<>>, writeAll |-> 0, secretSets |-> 0, status |-> 0]

\* hookenv.log
log(M, msg) == [M EXCEPT !.logs = Append(@, msg)]

\* Entering a function of the script.
enter(M, name) == [M EXCEPT !.handlers = Append(@, name)]

\* An exception leaves the function that is running.
raise(M, exc) == [M EXCEPT !.raised = exc]

\* Sequencing: R is what the next statement makes of M, unless M has raised.
then(M, R) == IF M.raised # NoExc THEN M ELSE R

\* A subprocess command: recorded, with the outcome the environment gives it.
command(M, cmd) == [M EXCEPT !.cmds = Append(@, cmd)]

\* subprocess.check_call: CalledProcessError on a non-zero exit.
check_call(M, cmd, ok) ==
    IF ok THEN command(M, cmd) ELSE raise(command(M, cmd), "CalledProcessError")

\* -------------------------------------------------- external collaborators
\* hahelpers.cluster.is_elected_leader: one boolean per call.
is_elected_leader(M) == M.isLeader

\* peerstorage.peer_retrieve('shared_secret')
peer_retrieve(M) == M.peer

\* peerstorage.peer_store('shared_secret', value)
peer_store(M, value) ==
    [M EXCEPT !.peer = Some(value),
              !.peerWriters = @ \cup {is_elected_leader(M)}]

\* ceilometer_utils.set_shared_secret: overwrite the local copy.
set_shared_secret(M, secret) ==
    [M EXCEPT !.local = Some(secret), !.secretSets = @ + 1]

\* ceilometer_utils.get_shared_secret: the local copy; a unit that has none
\* generates one (gen) and stores it.  The result is the pair of the value
\* and the M the call leaves.
get_shared_secret(M, gen) ==
    IF M.local = None
    THEN [value |-> gen, m |-> set_shared_secret(M, gen)]
    ELSE [value |-> M.local[1], m |-> M]

\* The configuration files the restart map watches.
CEILOMETER_CONF == "/etc/ceilometer/ceilometer.conf"
CEILOMETER_API_SYSTEMD_CONF == "/etc/systemd/system/ceilometer-api.service.d/override.conf"
HAPROXY_CONF == "/etc/haproxy/haproxy.cfg"
WatchedFiles == {CEILOMETER_CONF, CEILOMETER_API_SYSTEMD_CONF, HAPROXY_CONF}

\* ceilometer_utils.restart_map(): watched file -> the services to restart
\* when it changes, in order.
restart_map ==
    (CEILOMETER_CONF :> <<"ceilometer-collector", "ceilometer-api">>)
    @@ (CEILOMETER_API_SYSTEMD_CONF :> <<"ceilometer-api">>)
    @@ (HAPROXY_CONF :> <<"haproxy">>)

\* The order in which the restart map is walked.
WatchedOrder == <<CEILOMETER_CONF, CEILOMETER_API_SYSTEMD_CONF, HAPROXY_CONF>>

\* What the templates render to in the context of one dispatch: the context
\* of the relations is fixed while a hook runs, the local secret (the
\* metering secret of ceilometer.conf) is not.
Render(M) ==
    [f \in WatchedFiles |->
        IF f = CEILOMETER_CONF THEN <<"rendered", M.local>> ELSE <<"rendered">>]

\* A file on disk that was rendered from another context than this
\* dispatch's.
Stale == <<"stale">>

\* CONFIGS.write_all(): render every managed template.
write_all(M) == [M EXCEPT !.writeAll = @ + 1, !.files = Render(M)]

\* host.service_restart(name) and the like: never raises.
service_restart(M, name) == [M EXCEPT !.restarts = Append(@, name)]

\* The services of the watched files that differ between two snapshots, each
\* once, in the order of the restart map.
RECURSIVE ServicesOf(_, _, _, _)
ServicesOf(before, after, paths, acc) ==
    IF paths = <<>> THEN acc
    ELSE LET f == Head(paths)
             new == IF before[f] # after[f]
                    THEN SelectSeq(restart_map[f],
                                   LAMBDA x : \A i \in 1..Len(acc) : acc[i] # x)
                    ELSE <<>>
         IN  ServicesOf(before, after, Tail(paths), acc \o new)

RECURSIVE RestartAll(_, _)
RestartAll(M, names) ==
    IF names = <<>> THEN M
    ELSE RestartAll(service_restart(M, Head(names)), Tail(names))

\* is_unit_paused_set(), for the inputs of one dispatch.
PausedOf(in) == "paused" \in DOMAIN in /\ in.paused

\* pausable_restart_on_change(restart_map()) around a handler: M is the state
\* the wrapper is entered in, F the state the handler leaves.  A paused unit
\* runs the handler and restarts nothing; otherwise every service with a
\* watched file that changed while the handler ran is restarted once, also
\* when the handler raised, and the handler's exception goes on.
restart_on_change(M, F, in) ==
    CHOOSE R \in {IF PausedOf(in) THEN after
                  ELSE RestartAll(after,
                          ServicesOf(M.files, after.files, WatchedOrder, <<>>)) :
                  after \in {F}} : TRUE

\* ceilometer_utils.assess_status(CONFIGS): never throws.
assess_status(M) == [M EXCEPT !.status = @ + 1]

\* subprocess.call: the exit status is returned, and not looked at here.
call(M, cmd, ok) == command(M, cmd)

\* What the environment answers when the inputs of a dispatch leave it open.
RestartOkOf(in) == IF "restartOk" \in DOMAIN in THEN in.restartOk ELSE TRUE
StaleOf(in) == IF "stale" \in DOMAIN in THEN in.stale ELSE {}

\* ---------------------------------------------------------------- handlers
\* install(): apt_install(packages, fatal=True) aborts the handler when the
\* installation fails.
install(M, in) ==
    LET M0 == enter(M, "install")
    IN  IF in.installOk THEN M0 ELSE raise(M0, "CalledProcessError")

update_nrpe_config(M) == enter(M, "update_nrpe_config")

ceilometer_joined(M) == enter(M, "ceilometer_joined")

\* keystone_joined(): one relation_set on the identity-service relation.
keystone_joined(M) == enter(M, "keystone_joined")

install_event_pipeline_setting(M) == enter(M, "install_event_pipeline_setting")

\* ceilometer_utils.do_openstack_upgrade(CONFIGS)
do_openstack_upgrade(M) == enter(M, "do_openstack_upgrade")

\* ceilometer_utils.reload_systemd()
reload_systemd(M) == enter(M, "reload_systemd")

install_ceilometer_ocf(M) == enter(M, "install_ceilometer_ocf")

configure_httpsNeverDisable(M, in) ==
    LET M0 == write_all(enter(M, "configure_https"))
        M1 == IF in.httpsComplete
              THEN LET A == check_call(M0, "a2ensite", in.a2Ok)
                   IN  then(A, [A EXCEPT !.site = TRUE])
              ELSE IF in.a2Ok THEN M0 ELSE raise(M0, "CalledProcessError")
    IN  then(M1, IF in.paused THEN M1 ELSE command(M1, "apache2 reload"))

configure_httpsAlwaysEnable(M, in) ==
    LET M0 == write_all(enter(M, "configure_https"))
        A  == check_call(M0, "a2ensite", in.a2Ok)
        M1 == then(A, [A EXCEPT !.site = in.httpsComplete])
    IN  then(M1, IF in.paused THEN M1 ELSE command(M1, "apache2 reload"))

\* configure_https(), lines 165-183.
configure_https(M, in) ==
    LET M0 == write_all(enter(M, "configure_https"))
        M1 == IF in.httpsComplete
              THEN LET A == check_call(M0, "a2ensite", in.a2Ok)
                   IN  then(A, [A EXCEPT !.site = TRUE])
              ELSE LET A == check_call(M0, "a2dissite", in.a2Ok)
                   IN  then(A, [A EXCEPT !.site = FALSE])
        M2 == IF in.paused THEN M1
              ELSE IF in.reloadOk THEN command(M1, "apache2 reload")
              \* except CalledProcessError: subprocess.call, whose exit
              \* status is not looked at
              ELSE call(command(M1, "apache2 reload"), "apache2 restart",
                        RestartOkOf(in))
    IN  then(M1, M2)

\* any_changed(), lines 141-144.
any_changed(M, in) ==
    LET M0 == write_all(enter(M, "any_changed"))
        M1 == configure_https(M0, in)
    IN  restart_on_change(M, then(M1, ceilometer_joined(M1)), in)

\* identity_service_relation_changed(), lines 147-153.
identity_service_relation_changed(M, in) ==
    LET M0 == write_all(enter(M, "identity_service_relation_changed"))
        M1 == configure_https(M0, in)
        M2 == then(M1, keystone_joined(M1))
    IN  restart_on_change(M, then(M2, ceilometer_joined(M2)), in)

amqp_departedAlwaysWrites(M, in) ==
    restart_on_change(M, write_all(enter(M, "amqp_departed")), in)

\* amqp_departed(), lines 156-162.
amqp_departed(M, in) ==
    LET M0 == enter(M, "amqp_departed")
    IN  restart_on_change(M,
            IF ~in.amqpComplete
            THEN log(M0, "amqp relation incomplete. Peer not ready?")
            ELSE write_all(M0),
            in)

cluster_joinedFreshSecret(M, in) ==
    LET M0 == install_ceilometer_ocf(enter(M, "cluster_joined"))
        M1 == IF is_elected_leader(M0)
              THEN peer_store(set_shared_secret(M0, in.gen), in.gen)
              ELSE M0
    IN  restart_on_change(M, write_all(M1), in)

cluster_joinedNoLeaderCheck(M, in) ==
    LET M0 == install_ceilometer_ocf(enter(M, "cluster_joined"))
        G  == get_shared_secret(M0, in.gen)
    IN  restart_on_change(M, write_all(peer_store(G.m, G.value)), in)

\* cluster_joined(), lines 255-275.  Lines 264-275 publish the unit's addresses
\* on the peer relation, under keys of their own: 'shared_secret' is written
\* by peer_store alone.
cluster_joined(M, in) ==
    LET M0 == install_ceilometer_ocf(enter(M, "cluster_joined"))
        M1 == IF is_elected_leader(M0)
              THEN LET G == get_shared_secret(M0, in.gen)
                   IN  peer_store(G.m, G.value)
              ELSE M0
    IN  restart_on_change(M, write_all(M1), in)

cluster_changedNoSync(M, in) ==
    LET M0 == enter(M, "cluster_changed")
        shared_secret == peer_retrieve(M0)
        M1 == IF shared_secret = None \/ strip(shared_secret[1]) = <<>>
              THEN log(M0, "waiting for shared secret to be provided by leader")
              ELSE get_shared_secret(M0, in.gen).m
    IN  restart_on_change(M, write_all(M1), in)

cluster_changedOnlyIfAbsent(M, in) ==
    LET M0 == enter(M, "cluster_changed")
        shared_secret == peer_retrieve(M0)
        M1 == IF shared_secret = None \/ strip(shared_secret[1]) = <<>>
              THEN log(M0, "waiting for shared secret to be provided by leader")
              ELSE IF M0.local = None
                   THEN set_shared_secret(M0, shared_secret[1])
                   ELSE M0
    IN  restart_on_change(M, write_all(M1), in)

cluster_changedBlankIsSecret(M, in) ==
    LET M0 == enter(M, "cluster_changed")
        shared_secret == peer_retrieve(M0)
        M1 == IF shared_secret = None
              THEN log(M0, "waiting for shared secret to be provided by leader")
              ELSE LET G == get_shared_secret(M0, in.gen)
                   IN  IF ~(shared_secret[1] = G.value)
                       THEN set_shared_secret(G.m, shared_secret[1])
                       ELSE G.m
    IN  restart_on_change(M, write_all(M1), in)

\* cluster_changed(), lines 281-288.
cluster_changed(M, in) ==
    LET M0 == enter(M, "cluster_changed")
        shared_secret == peer_retrieve(M0)
        M1 == IF shared_secret = None \/ strip(shared_secret[1]) = <<>>
              THEN log(M0, "waiting for shared secret to be provided by leader")
              ELSE LET G == get_shared_secret(M0, in.gen)
                   IN  IF ~(shared_secret[1] = G.value)
                       THEN set_shared_secret(G.m, shared_secret[1])
                       ELSE G.m
    IN  restart_on_change(M, write_all(M1), in)

\* upgrade_charm(), lines 225-230.  relation_ids('cluster') holds the peer
\* relation once it is established.
upgrade_charm(M, in) ==
    LET M0 == install(enter(M, "upgrade_charm"), in)
        M1 == then(M0, update_nrpe_config(M0))
        M2 == then(M1, any_changed(M1, in))
    IN  then(M2, IF in.hasClusterRel THEN cluster_joined(M2, in) ELSE M2)

\* update_status(), lines 448-449.
update_status(M) == log(enter(M, "update_status"), "Updating status.")

\* ceilometer_utils.CEILOMETER_SERVICE
CEILOMETER_SERVICE == "ceilometer"

identity_notifications_changedAlways(M, in) ==
    LET M0 == enter(M, "identity_notifications_changed")
    IN  service_restart(service_restart(M0, "ceilometer-alarm-evaluator"),
                        "ceilometer-alarm-notifier")

\* identity_notifications_changed(), lines 404-416; in.notifications is the
\* set of keys of relation_get().
identity_notifications_changed(M, in) ==
    LET M0 == enter(M, "identity_notifications_changed")
        key == CEILOMETER_SERVICE \o "-endpoint-changed"
    IN  IF in.notifications = {} THEN M0
        ELSE IF key \in in.notifications
        THEN service_restart(service_restart(M0, "ceilometer-alarm-evaluator"),
                             "ceilometer-alarm-notifier")
        ELSE M0

\* ----------------------------------------------------------- HA negotiator
LEGACY_RES_KEY == "res_ceilometer_agent_central"
NEW_RES_KEY == "res_ceilometer_polling"
HAPROXY_RES_KEY == "res_ceilometer_haproxy"
VIP_GROUP == "grp_ceilometer_vips"
DNSHA_GROUP == "grp_ceilometer_hostnames"

\* charmhelpers' OPENSTACK_RELEASES, in release order.
OPENSTACK_RELEASES ==
    <<"icehouse", "juno", "kilo", "liberty", "mitaka", "newton", "ocata">>

ReleaseIndex(r) ==
    CHOOSE i \in 1..Len(OPENSTACK_RELEASES) : OPENSTACK_RELEASES[i] = r

\* CompareOpenStackReleases(a) >= b
ReleaseAtLeast(a, b) == ReleaseIndex(a) >= ReleaseIndex(b)

\* RES_KEY.replace('res_', '').replace('_', '-')
OcfName(key) ==
    CASE key = LEGACY_RES_KEY -> "ceilometer-agent-central"
      [] key = NEW_RES_KEY -> "ceilometer-polling"

\* The interfaces of the unit, and the netmask of each.
Ifaces == {"eth0", "eth1"}
IfaceNetmask == [i \in Ifaces |-> IF i = "eth0" THEN "255.255.255.0" ELSE "255.255.0.0"]

\* The virtual IP addresses a configuration can name.
VipAddrs == <<"10.0.0.1", "10.0.0.2", "10.0.0.3", "10.0.0.4">>
Vips == {VipAddrs[i] : i \in 1..MaxVips}

\* network.ip.get_iface_for_address(vip): None when no local interface can
\* host the address.
get_iface_for_address(in, vip) == in.ifaceOf[vip]

\* network.ip.get_netmask_for_address(vip)
get_netmask_for_address(in, vip) ==
    IF in.ifaceOf[vip] = None THEN "None" ELSE IfaceNetmask[in.ifaceOf[vip][1]]

\* The keys of the unit's settings on the ha relation.
HaKeys ==
    {"groups", "init_services", "corosync_bindiface", "corosync_mcastport",
     "resources", "resource_params", "delete_resources", "clones"}

NoSettings == [k \in HaKeys |-> None]

\* hookenv.relation_set(relation_id, **settings): sets the keys it is given
\* and leaves the unit's other keys as they are.
relation_set(M, settings) ==
    [M EXCEPT !.rel = [k \in HaKeys |->
        IF k \in DOMAIN settings THEN Some(settings[k]) ELSE @[k]]]

\* ' '.join(names)
RECURSIVE Join(_)
Join(names) ==
    IF names = <<>> THEN ""
    ELSE IF Len(names) = 1 THEN names[1]
    ELSE names[1] \o " " \o Join(Tail(names))

\* The loop of lines 313-315: amqp_ssl_port is what the last unit of the last
\* amqp relation advertises.
RECURSIVE AmqpSslPort(_, _)
AmqpSslPort(port, advertised) ==
    IF advertised = <<>> THEN port
    ELSE AmqpSslPort(Head(advertised), Tail(advertised))

VipKey(iface) == "res_ceilometer_" \o iface \o "_vip"

VipParams(in, vip, iface) ==
    "params ip=\"" \o vip \o "\" cidr_netmask=\""
        \o get_netmask_for_address(in, vip) \o "\" nic=\"" \o iface \o "\""

RECURSIVE VipLoopNoSkip(_, _, _)
VipLoopNoSkip(L, in, vips) ==
    IF vips = <<>> THEN L
    ELSE LET vip == Head(vips)
             iface == get_iface_for_address(in, vip)
             name == IF iface # None THEN iface[1] ELSE "None"
             vip_key == VipKey(name)
         IN  VipLoopNoSkip(
                [resources |-> (vip_key :> "ocf:heartbeat:IPaddr2") @@ L.resources,
                 resource_params |->
                    (vip_key :> VipParams(in, vip, name)) @@ L.resource_params,
                 vip_group |-> Append(L.vip_group, vip_key)],
                in, Tail(vips))

\* The loop of lines 328-344 over the addresses left to visit; L holds
\* resources, resource_params and vip_group.
RECURSIVE VipLoop(_, _, _)
VipLoop(L, in, vips) ==
    IF vips = <<>> THEN L
    ELSE LET vip == Head(vips)
             iface == get_iface_for_address(in, vip)
         IN  IF iface # None
             THEN LET vip_key == VipKey(iface[1])
                  IN  VipLoop(
                        [resources |-> (vip_key :> "ocf:heartbeat:IPaddr2") @@ L.resources,
                         resource_params |->
                            (vip_key :> VipParams(in, vip, iface[1])) @@ L.resource_params,
                         vip_group |-> Append(L.vip_group, vip_key)],
                        in, Tail(vips))
             ELSE VipLoop(L, in, Tail(vips))

\* The endpoint types whose os-<type>-hostname setting the DNS builder reads,
\* in its order.
DnsSettings == <<"admin", "internal", "public">>

HostnameKey(t) == "res_ceilometer_" \o t \o "_hostname"

RECURSIVE DnsLoop(_, _, _)
DnsLoop(L, in, settings) ==
    IF settings = <<>> THEN L
    ELSE LET t == Head(settings)
         IN  IF t \in in.hostnames
             THEN DnsLoop(
                    [resources |-> (HostnameKey(t) :> "ocf:maas:dns") @@ L.resources,
                     resource_params |->
                        (HostnameKey(t) :> ("params fqdn=\"" \o t \o ".example.com\""))
                            @@ L.resource_params,
                     vip_group |-> Append(L.vip_group, HostnameKey(t))],
                    in, Tail(settings))
             ELSE DnsLoop(L, in, Tail(settings))

\* ha.utils.update_dns_ha_resource_params: adds one resource per configured
\* hostname to the two maps it is handed and publishes their group; with no
\* hostname configured it raises.
update_dns_ha_resource_params(M, L, in) ==
    LET D == DnsLoop(L, in, DnsSettings)
        M1 == [M EXCEPT !.locals = D]
    IN  IF Len(D.vip_group) >= 1
        THEN relation_set(M1, "groups" :> (DNSHA_GROUP :> Join(D.vip_group)))
        ELSE raise(M1, "DNSHAException")

delete_resourcesNever(in) == <<>>

\* Lines 294-299: the legacy key is marked for deletion from liberty on.
delete_resources(in) ==
    IF ReleaseAtLeast(in.release, "liberty") THEN <<LEGACY_RES_KEY>> ELSE <<>>

\* Lines 296-298.
RES_KEY(in) ==
    IF ReleaseAtLeast(in.release, "liberty") THEN NEW_RES_KEY ELSE LEGACY_RES_KEY

\* Lines 301-305.
resources(in) ==
    (HAPROXY_RES_KEY :> "lsb:haproxy")
        @@ (RES_KEY(in) :> ("ocf:openstack:" \o OcfName(RES_KEY(in))))

\* Lines 307-320.
resource_params(in) ==
    LET amqp_ssl_port == AmqpSslPort(None, in.sslPorts)
    IN  (HAPROXY_RES_KEY :> "op monitor interval=\"5s\"")
            @@ (RES_KEY(in) :>
                  \* if amqp_ssl_port: neither None nor ''
                  IF amqp_ssl_port # None /\ amqp_ssl_port[1] # ""
                  THEN "params amqp_server_port=\"" \o amqp_ssl_port[1]
                           \o "\" op monitor interval=\"30s\""
                  ELSE "op monitor interval=\"30s\"")

\* ha_joined(), lines 292-349: everything up to the first relation_set.  The
\* locals that the rest of the function reads are kept in M.locals.
ha_joined_292(M, in) ==
    LET M0 == enter(M, "ha_joined")
        L0 == [resources |-> resources(in), resource_params |-> resource_params(in),
               vip_group |-> <<>>]
        M1 == IF in.dnsHa
              THEN update_dns_ha_resource_params(M0, L0, in)
              ELSE LET L == VipLoop(L0, in, in.vips)
                       M2 == [M0 EXCEPT !.locals = L]
                   IN  IF Len(L.vip_group) >= 1
                       THEN relation_set(M2,
                                "groups" :> (VIP_GROUP :> Join(L.vip_group)))
                       ELSE M2
    IN  then(M1,
             [M1 EXCEPT !.at = "ha_joined_357",
                        !.locals = [resources |-> @.resources,
                                    resource_params |-> @.resource_params,
                                    vip_group |-> @.vip_group,
                                    delete_resources |-> delete_resources(in),
                                    bindiface |-> in.bindiface,
                                    mcastport |-> in.mcastport]])

ha_joined_357Appending(M) ==
    LET init_services == (HAPROXY_RES_KEY :> "haproxy")
        clones == ("cl_ceilometer_haproxy" :> HAPROXY_RES_KEY)
        published == IF M.rel["delete_resources"] = None THEN <<>>
                     ELSE M.rel["delete_resources"][1]
        M1 == relation_set(M,
                ("init_services" :> init_services)
                @@ ("corosync_bindiface" :> M.locals.bindiface)
                @@ ("corosync_mcastport" :> M.locals.mcastport)
                @@ ("resources" :> M.locals.resources)
                @@ ("resource_params" :> M.locals.resource_params)
                @@ ("delete_resources" :> published \o M.locals.delete_resources)
                @@ ("clones" :> clones))
    IN  [M1 EXCEPT !.at = "return"]

\* ha_joined(), lines 351-364: the second relation_set.
ha_joined_357(M) ==
    LET init_services == (HAPROXY_RES_KEY :> "haproxy")
        clones == ("cl_ceilometer_haproxy" :> HAPROXY_RES_KEY)
        M1 == relation_set(M,
                ("init_services" :> init_services)
                @@ ("corosync_bindiface" :> M.locals.bindiface)
                @@ ("corosync_mcastport" :> M.locals.mcastport)
                @@ ("resources" :> M.locals.resources)
                @@ ("resource_params" :> M.locals.resource_params)
                @@ ("delete_resources" :> M.locals.delete_resources)
                @@ ("clones" :> clones))
    IN  [M1 EXCEPT !.at = "return"]

\* ha_joined(rid) called from another handler: both relation_set calls.
ha_joined(M, in) ==
    LET M1 == ha_joined_292(M, in)
    IN  then(M1, ha_joined_357(M1))

\* config_changed(), lines 189-212.
config_changed(M, in) ==
    LET M0 == enter(M, "config_changed")
        M1 == IF ~in.actionManagedUpgrade /\ in.upgradeAvailable
              THEN do_openstack_upgrade(M0)
              ELSE M0
        M2 == write_all(update_nrpe_config(install_event_pipeline_setting(M1)))
        M3 == ceilometer_joined(reload_systemd(M2))
        M4 == configure_https(M3, in)
        M5 == then(M4, IF in.hasIdentityRel THEN keystone_joined(M4) ELSE M4)
        M6 == then(M5, install_ceilometer_ocf(M5))
        M7 == then(M6, IF in.hasHaRel THEN ha_joined(M6, in) ELSE M6)
    IN  restart_on_change(M, M7, in)

\* ------------------------------------------------------------- dispatcher
\* The @hooks.hook registrations of the script: event name -> handler.
HOOKS ==
    ("install.real" :> "install")
    @@ ("amqp-relation-joined" :> "amqp_joined")
    @@ ("shared-db-relation-joined" :> "db_joined")
    @@ ("amqp-relation-changed" :> "any_changed")
    @@ ("shared-db-relation-changed" :> "any_changed")
    @@ ("shared-db-relation-departed" :> "any_changed")
    @@ ("identity-service-relation-changed" :> "identity_service_relation_changed")
    @@ ("amqp-relation-departed" :> "amqp_departed")
    @@ ("config-changed" :> "config_changed")
    @@ ("upgrade-charm" :> "upgrade_charm")
    @@ ("cluster-relation-joined" :> "cluster_joined")
    @@ ("cluster-relation-changed" :> "cluster_changed")
    @@ ("cluster-relation-departed" :> "cluster_changed")
    @@ ("ha-relation-joined" :> "ha_joined")
    @@ ("ha-relation-changed" :> "ha_changed")
    @@ ("identity-service-relation-joined" :> "keystone_joined")
    @@ ("identity-notifications-relation-changed" :> "identity_notifications_changed")
    @@ ("ceilometer-service-relation-joined" :> "ceilometer_joined")
    @@ ("nrpe-external-master-relation-joined" :> "update_nrpe_config")
    @@ ("nrpe-external-master-relation-changed" :> "update_nrpe_config")
    @@ ("update-status" :> "update_status")

\* Hooks.execute(sys.argv): run the handler registered for the event, or
\* raise UnregisteredHookError.
hooks_execute(M, event, in) ==
    IF event \notin DOMAIN HOOKS THEN raise(M, "UnregisteredHookError")
    ELSE CASE HOOKS[event] = "any_changed" -> any_changed(M, in)
           [] HOOKS[event] = "identity_service_relation_changed" ->
                identity_service_relation_changed(M, in)
           [] HOOKS[event] = "amqp_departed" -> amqp_departed(M, in)
           [] HOOKS[event] = "config_changed" -> config_changed(M, in)
           [] HOOKS[event] = "identity_notifications_changed" ->
                identity_notifications_changed(M, in)
           [] HOOKS[event] = "upgrade_charm" -> upgrade_charm(M, in)
           [] HOOKS[event] = "cluster_joined" -> cluster_joined(M, in)
           [] HOOKS[event] = "cluster_changed" -> cluster_changed(M, in)
           [] HOOKS[event] = "ha_joined" -> ha_joined_292(M, in)
           [] HOOKS[event] = "update_status" -> update_status(M)

mainNoCatch(M, event) ==
    IF M.raised # NoExc THEN M ELSE assess_status(M)

\* __main__, lines 452-457, from the return of hooks.execute on.
main(M, event) ==
    IF M.raised = "UnregisteredHookError"
    THEN assess_status(
            log([M EXCEPT !.raised = NoExc], "Unknown hook " \o event \o " - skipping."))
    ELSE IF M.raised # NoExc
    THEN M
    ELSE assess_status(M)

\* The exit code of the process.
ExitCode(M) == IF M.raised = NoExc THEN 0 ELSE 1

\* ------------------------------------------------------------------ inputs
\* What the environment hands to one run of a handler: only the fields the
\* handler reads.
NoInput == <<>>

\* get_shared_secret's fresh token, should it have to generate one.
GenInputs == {[gen |-> g] : g \in GenSecrets}

\* configure_https: is 'https' a complete context, does a2ensite/a2dissite
\* succeed, is the unit paused, does the apache2 reload succeed.
HttpsInputs ==
    {[httpsComplete |-> c, a2Ok |-> a, paused |-> p, reloadOk |-> r] :
        c \in BOOLEAN, a \in BOOLEAN, p \in BOOLEAN, r \in BOOLEAN}

UpgradeInputs ==
    {[gen |-> g, installOk |-> i, hasClusterRel |-> h, httpsComplete |-> x.httpsComplete,
      a2Ok |-> x.a2Ok, paused |-> x.paused, reloadOk |-> x.reloadOk] :
        g \in GenSecrets, i \in BOOLEAN, h \in BOOLEAN, x \in HttpsInputs}

\* upgrade-charm on a paused unit whose 'https' context is incomplete.
UpgradeInputsPaused ==
    {in \in UpgradeInputs : ~in.httpsComplete /\ in.paused /\ in.reloadOk}

SeqsUpTo(S, n) == UNION {[1..k -> S] : k \in 0..n}

\* The configured 'vip' setting, split: distinct addresses in some order.
VipLists ==
    {s \in SeqsUpTo(Vips, MaxVips) : \A i, j \in 1..Len(s) : i # j => s[i] # s[j]}

\* The ssl_port each unit of the amqp relations advertises, in the order the
\* loop visits them.
SslPortLists == SeqsUpTo({None, Some("5671")}, MaxAmqpUnits)

HaReleases == {"kilo", "liberty", "mitaka"}

\* get_iface_for_address, for the addresses of one configuration.
Resolutions(vips) ==
    {f \in [Vips -> {None} \cup {Some(i) : i \in Ifaces}] :
        \A v \in Vips \ Range(vips) : f[v] = None}

\* ha_joined in virtual-IP mode, on a unit with no amqp relation.
HaInputsVip ==
    {[release |-> r, sslPorts |-> <<>>, dnsHa |-> FALSE, vips |-> x[1],
      ifaceOf |-> x[2], hostnames |-> {}, bindiface |-> "eth0",
      mcastport |-> "5405"] :
        r \in HaReleases,
        x \in UNION {{<<v, f>> : f \in Resolutions(v)} : v \in VipLists}}

\* ha_joined in DNS-HA mode, on a unit with no amqp relation.
HaInputsDns ==
    {[release |-> r, sslPorts |-> <<>>, dnsHa |-> TRUE, vips |-> <<>>,
      ifaceOf |-> [v \in Vips |-> None],
      hostnames |-> h, bindiface |-> "eth0", mcastport |-> "5405"] :
        r \in HaReleases, h \in SUBSET {"admin", "public"}}

\* ha_joined with no virtual IP configured, on a unit whose amqp relations
\* have up to MaxAmqpUnits units.
HaInputsSsl ==
    {[release |-> r, sslPorts |-> p, dnsHa |-> FALSE, vips |-> <<>>,
      ifaceOf |-> [v \in Vips |-> None], hostnames |-> {}, bindiface |-> "eth0",
      mcastport |-> "5405"] :
        r \in HaReleases, p \in SslPortLists}

\* Which watched files the context has outdated when a hook starts: none,
\* ceilometer.conf, the two files ceilometer-api is restarted for, all.
StaleSets ==
    {{}, {CEILOMETER_CONF}, {CEILOMETER_CONF, CEILOMETER_API_SYSTEMD_CONF},
     WatchedFiles}

\* A unit whose front-end commands all succeed.
HttpsInputsOk == {in \in HttpsInputs : in.a2Ok /\ in.reloadOk}

\* A wrapped cluster handler: the token, the pause flag, the stale files.
ClusterInputsRestart ==
    {[gen |-> g, paused |-> p, stale |-> st] :
        g \in GenSecrets, p \in BOOLEAN, st \in StaleSets}

\* any_changed on a unit whose front-end commands succeed.
AnyChangedInputsRestart ==
    {[httpsComplete |-> x.httpsComplete, a2Ok |-> x.a2Ok, paused |-> x.paused,
      reloadOk |-> x.reloadOk, stale |-> st] :
        x \in HttpsInputsOk, st \in StaleSets}

\* upgrade-charm on a unit whose installation and front-end commands succeed
\* and whose 'https' context is incomplete.
UpgradeInputsRestart ==
    {[gen |-> g, installOk |-> TRUE, hasClusterRel |-> h, httpsComplete |-> FALSE,
      a2Ok |-> TRUE, paused |-> p, reloadOk |-> TRUE, stale |-> st] :
        g \in GenSecrets, h \in BOOLEAN, p \in BOOLEAN, st \in StaleSets}

\* What config_changed reads besides the inputs of configure_https (x) and the
\* stale files (st): the upgrade switches, the identity-service relation, and
\* the ha relation with the configuration ha_joined reads.
ConfigInputsOf(x, st, upgrade, related) ==
    [actionManagedUpgrade |-> ~upgrade, upgradeAvailable |-> TRUE,
     hasIdentityRel |-> related, hasHaRel |-> related,
     httpsComplete |-> x.httpsComplete, a2Ok |-> x.a2Ok, paused |-> x.paused,
     reloadOk |-> x.reloadOk, stale |-> st,
     release |-> "liberty", sslPorts |-> <<>>, dnsHa |-> FALSE,
     vips |-> <<VipAddrs[1]>>,
     ifaceOf |-> [v \in Vips |-> IF v = VipAddrs[1] THEN Some("eth0") ELSE None],
     hostnames |-> {}, bindiface |-> "eth0", mcastport |-> "5405"]

ConfigInputsRestart ==
    {ConfigInputsOf(x, st, up, rel) :
        x \in {y \in HttpsInputsOk : ~y.httpsComplete}, st \in StaleSets,
        up \in BOOLEAN, rel \in BOOLEAN}

\* amqp_departed: is 'amqp' a complete context.
AmqpDepartedInputs ==
    {[amqpComplete |-> a, paused |-> p, stale |-> st] :
        a \in BOOLEAN, p \in BOOLEAN, st \in StaleSets}

\* identity-notifications-relation-changed: the keys of relation_get(), on a
\* unit that may be paused and whose watched files may be stale.
NotificationKeys ==
    {CEILOMETER_SERVICE \o "-endpoint-changed", "nova-endpoint-changed",
     CEILOMETER_SERVICE \o "-endpoint"}

NotificationInputs ==
    {[notifications |-> n, paused |-> p, stale |-> st] :
        n \in SUBSET NotificationKeys, p \in BOOLEAN, st \in StaleSets}

\* shared-db-relation-changed: any_changed's inputs, and whether 'amqp' is a
\* complete context.
SharedDbInputs ==
    {[amqpComplete |-> a, httpsComplete |-> x.httpsComplete, a2Ok |-> x.a2Ok,
      paused |-> x.paused, reloadOk |-> x.reloadOk] :
        a \in BOOLEAN, x \in HttpsInputs}

\* configure_https on a unit whose apache2 reload fails: does the restart it
\* falls back to succeed.
HttpsInputsFallback ==
    {[httpsComplete |-> c, a2Ok |-> TRUE, paused |-> FALSE, reloadOk |-> FALSE,
      restartOk |-> r] : c \in BOOLEAN, r \in BOOLEAN}

\* config-changed with the watched files up to date.
ConfigInputsHttps ==
    {ConfigInputsOf(x, {}, FALSE, rel) : x \in HttpsInputs, rel \in BOOLEAN}

\* ------------------------------------------------------------- transitions
NoFrame == <<>>

\* The view a hook process started on unit u has.
View(u) ==
    [isLeader |-> leader = u, local |-> localSecret[u], peer |-> peerSecret,
     peerWriters |-> peerWriters, site |-> httpsSite[u], rel |-> haRel[u],
     locals |-> <<>>, at |-> "return",
     files |-> [f \in WatchedFiles |->
                  IF f = CEILOMETER_CONF THEN <<"rendered", localSecret[u]>>
                  ELSE <<"rendered">>],
     raised |-> NoTrace.raised, handlers |-> NoTrace.handlers,
     logs |-> NoTrace.logs, cmds |-> NoTrace.cmds, restarts |-> NoTrace.restarts,
     writeAll |-> NoTrace.writeAll,
     secretSets |-> NoTrace.secretSets, status |-> NoTrace.status]

\* The process starts: the watched files are as the last render left them,
\* or stale where the context has changed since.
Boot(M, in) ==
    [M EXCEPT !.files = [f \in WatchedFiles |->
                            IF f \in StaleOf(in) THEN Stale ELSE @[f]]]

\* What a run leaves behind for an observer.
Trace(M, u, event, in, exit) ==
    [unit |-> u, event |-> event, in |-> in, raised |-> M.raised,
     handlers |-> M.handlers, logs |-> M.logs, cmds |-> M.cmds,
     restarts |-> M.restarts,
     changed |-> {f \in WatchedFiles : M.files[f] # Boot(View(u), in).files[f]},
     writeAll |-> M.writeAll, secretSets |-> M.secretSets, status |-> M.status,
     exit |-> exit]

\* The effects of M on the world.
Commit(u, M) ==
    /\ localSecret' = [localSecret EXCEPT ![u] = M.local]
    /\ peerSecret' = M.peer
    /\ peerWriters' = M.peerWriters
    /\ httpsSite' = [httpsSite EXCEPT ![u] = M.site]
    /\ haRel' = [haRel EXCEPT ![u] = M.rel]

\* The process ends: __main__'s tail runs and the process exits.
Finish(u, event, in, M) ==
    \E F \in {main(M, event)} :
        /\ Commit(u, F)
        /\ pc' = "idle"
        /\ frame' = NoFrame
        /\ run' = Trace(F, u, event, in, Some(ExitCode(F)))

\* The process has made its first relation_set and has not returned yet.
Suspend(u, event, in, M) ==
    /\ Commit(u, M)
    /\ pc' = M.at
    /\ frame' = [unit |-> u, event |-> event, in |-> in, m |-> M]
    /\ run' = Trace(M, u, event, in, None)

\* One invocation of the script on unit u for an event.
Dispatch(u, event, in) ==
    /\ pc = "idle"
    /\ UNCHANGED leader
    /\ \E M \in {hooks_execute(Boot(View(u), in), event, in)} :
           IF M.raised = NoExc /\ M.at # "return"
           THEN Suspend(u, event, in, M)
           ELSE Finish(u, event, in, M)

\* The running ha_joined goes on from its first relation_set.
HaJoinedPublish ==
    /\ pc = "ha_joined_357"
    /\ UNCHANGED leader
    /\ Finish(frame.unit, frame.event, frame.in,
              ha_joined_357([frame.m EXCEPT !.rel = haRel[frame.unit]]))

ClusterRelationJoined(u) ==
    \E in \in GenInputs : Dispatch(u, "cluster-relation-joined", in)

ClusterRelationChanged(u) ==
    \E in \in GenInputs : Dispatch(u, "cluster-relation-changed", in)

ClusterRelationDeparted(u) ==
    \E in \in GenInputs : Dispatch(u, "cluster-relation-departed", in)

UpgradeCharm(u) ==
    \E in \in UpgradeInputs : Dispatch(u, "upgrade-charm", in)

UpgradeCharmPaused(u) ==
    \E in \in UpgradeInputsPaused : Dispatch(u, "upgrade-charm", in)

AmqpRelationChanged(u) ==
    \E in \in HttpsInputs : Dispatch(u, "amqp-relation-changed", in)

SharedDbRelationChanged(u) ==
    \E in \in HttpsInputs : Dispatch(u, "shared-db-relation-changed", in)

SharedDbRelationDeparted(u) ==
    \E in \in HttpsInputs : Dispatch(u, "shared-db-relation-departed", in)

UpdateStatus(u) == Dispatch(u, "update-status", NoInput)

\* Events Juju delivers for which the script registers no handler.
UnknownEvents == {"start", "stop", "leader-elected"}

UnknownEvent(u) == \E e \in UnknownEvents : Dispatch(u, e, NoInput)

HaRelationJoined(u) ==
    \E in \in HaInputsVip \cup HaInputsDns : Dispatch(u, "ha-relation-joined", in)

HaRelationJoinedVip(u) ==
    \E in \in HaInputsVip : Dispatch(u, "ha-relation-joined", in)

HaRelationJoinedSsl(u) ==
    \E in \in HaInputsSsl : Dispatch(u, "ha-relation-joined", in)

\* Events handled under the restart coordinator, on a unit whose watched
\* files may be stale.
UpgradeCharmRestart(u) ==
    \E in \in UpgradeInputsRestart : Dispatch(u, "upgrade-charm", in)

ConfigChangedRestart(u) ==
    \E in \in ConfigInputsRestart : Dispatch(u, "config-changed", in)

AmqpRelationChangedRestart(u) ==
    \E in \in AnyChangedInputsRestart : Dispatch(u, "amqp-relation-changed", in)

ClusterRelationJoinedRestart(u) ==
    \E in \in ClusterInputsRestart : Dispatch(u, "cluster-relation-joined", in)

ClusterRelationChangedRestart(u) ==
    \E in \in ClusterInputsRestart : Dispatch(u, "cluster-relation-changed", in)

AmqpRelationDeparted(u) ==
    \E in \in AmqpDepartedInputs : Dispatch(u, "amqp-relation-departed", in)

IdentityNotificationsRelationChanged(u) ==
    \E in \in NotificationInputs :
        Dispatch(u, "identity-notifications-relation-changed", in)

\* Events whose handlers reach configure_https.
SharedDbRelationChangedAmqp(u) ==
    \E in \in SharedDbInputs : Dispatch(u, "shared-db-relation-changed", in)

AmqpRelationChangedFallback(u) ==
    \E in \in HttpsInputsFallback : Dispatch(u, "amqp-relation-changed", in)

IdentityServiceRelationChanged(u) ==
    \E in \in HttpsInputs : Dispatch(u, "identity-service-relation-changed", in)

ConfigChangedHttps(u) ==
    \E in \in ConfigInputsHttps : Dispatch(u, "config-changed", in)

\* The cluster-membership provider elects another unit.
LeaderElected ==
    /\ pc = "idle"
    /\ \E u \in Units \ {leader} : leader' = u
    /\ UNCHANGED <<localSecret, peerSecret, peerWriters, httpsSite, haRel, pc,
                   frame, run>>

\* ----------------------------------------------------------- specifications
Init ==
    /\ leader \in Units
    /\ localSecret = [u \in Units |-> None]
    /\ peerSecret \in {None} \cup {Some(b) : b \in BlankSecrets}
    /\ peerWriters = {}
    /\ httpsSite = [u \in Units |-> FALSE]
    /\ haRel = [u \in Units |-> NoSettings]
    /\ pc = "idle"
    /\ frame = NoFrame
    /\ run = Trace(View(Self), Self, "", NoInput, None)

\* The peer relation: cluster events and upgrade-charm on every unit, and
\* changes of leader.
ClusterNext ==
    \/ \E u \in Units : ClusterRelationJoined(u)
    \/ \E u \in Units : ClusterRelationChanged(u)
    \/ \E u \in Units : ClusterRelationDeparted(u)
    \/ \E u \in Units : UpgradeCharmPaused(u)
    \/ LeaderElected

ClusterSpec == Init /\ [][ClusterNext]_vars

\* The dispatcher on one unit: registered events whose handlers return or
\* raise, and unregistered events.
DispatchNext ==
    \/ AmqpRelationChanged(Self)
    \/ SharedDbRelationChanged(Self)
    \/ SharedDbRelationDeparted(Self)
    \/ UpgradeCharm(Self)
    \/ ClusterRelationJoined(Self)
    \/ ClusterRelationChanged(Self)
    \/ UpdateStatus(Self)
    \/ UnknownEvent(Self)

DispatchSpec == Init /\ [][DispatchNext]_vars

\* The ha relation of one unit.
HaNext ==
    \/ HaRelationJoined(Self)
    \/ HaJoinedPublish

HaInit == Init /\ leader = Self /\ peerSecret = None

HaSpec == HaInit /\ [][HaNext]_vars

\* The ha relation of one unit configured for virtual IPs.
HaVipNext ==
    \/ HaRelationJoinedVip(Self)
    \/ HaJoinedPublish

HaVipSpec == HaInit /\ [][HaVipNext]_vars

\* The ha relation of one unit related to amqp units.
HaSslNext ==
    \/ HaRelationJoinedSsl(Self)
    \/ HaJoinedPublish

HaSslSpec == HaInit /\ [][HaSslNext]_vars

\* The HTTPS front-end of one unit.
HttpsNext ==
    \/ AmqpRelationChanged(Self)
    \/ AmqpRelationChangedFallback(Self)
    \/ SharedDbRelationChangedAmqp(Self)
    \/ SharedDbRelationDeparted(Self)
    \/ IdentityServiceRelationChanged(Self)
    \/ ConfigChangedHttps(Self)

HttpsSpec == HaInit /\ [][HttpsNext]_vars

\* The peer relation of every unit, or else the ha relation of one unit: the
\* handlers of either relation read and write nothing of the other, and the
\* two are exercised apart.
IdemNext ==
    \/ /\ haRel[Self] = NoSettings
       /\ \/ \E u \in Units : ClusterRelationJoined(u)
          \/ \E u \in Units : ClusterRelationChanged(u)
          \/ \E u \in Units : ClusterRelationDeparted(u)
          \/ LeaderElected
    \/ /\ run.event \in {"", "ha-relation-joined"}
       /\ leader = Self
       /\ \/ HaRelationJoinedVip(Self)
          \/ HaJoinedPublish

IdemSpec == Init /\ [][IdemNext]_vars

\* Notifications from the identity service on one unit.
NotifyNext == IdentityNotificationsRelationChanged(Self)

NotifySpec == Init /\ [][NotifyNext]_vars

\* The restart coordinator on one unit.
RestartNext ==
    \/ UpgradeCharmRestart(Self)
    \/ ConfigChangedRestart(Self)
    \/ AmqpRelationChangedRestart(Self)
    \/ ClusterRelationJoinedRestart(Self)
    \/ ClusterRelationChangedRestart(Self)
    \/ AmqpRelationDeparted(Self)

RestartSpec == Init /\ [][RestartNext]_vars

Next ==
    \/ \E u \in Units :
        \/ ClusterRelationJoined(u)
        \/ ClusterRelationChanged(u)
        \/ ClusterRelationDeparted(u)
        \/ UpgradeCharm(u)
        \/ AmqpRelationChanged(u)
        \/ SharedDbRelationChanged(u)
        \/ SharedDbRelationDeparted(u)
        \/ UpdateStatus(u)
        \/ UnknownEvent(u)
        \/ HaRelationJoined(u)
    \/ HaJoinedPublish
    \/ LeaderElected

Spec == Init /\ [][Next]_vars

\* The cluster-relation events and the elections, with
\* cluster-relation-changed delivered to every unit for as long as it has
\* something to do there.
ClusterLiveNext ==
    \/ \E u \in Units : ClusterRelationJoined(u)
    \/ \E u \in Units : ClusterRelationChanged(u)
    \/ \E u \in Units : ClusterRelationDeparted(u)
    \/ LeaderElected

ClusterLiveSpec ==
    /\ Init
    /\ [][ClusterLiveNext]_vars
    /\ \A u \in Units : WF_vars(ClusterRelationChanged(u))

\* -------------------------------------------------------------- properties
ClusterChangedEvents == {"cluster-relation-changed", "cluster-relation-departed"}

NonBlank(secret) == secret # None /\ strip(secret[1]) # <<>>

Published == NonBlank(peerSecret)

AllSynced == \A u \in Units : localSecret[u] = peerSecret

\* C1: a run of cluster_changed that finds a non-blank peer-stored secret
\* different from the unit's local secret leaves the local secret equal to the
\* peer-stored one; a run that finds them equal does not rewrite the local
\* secret.
C1_FollowerConverges ==
    [][\A u \in Units : \A e \in ClusterChangedEvents : \A in \in GenInputs :
        (Dispatch(u, e, in) /\ NonBlank(peerSecret)) =>
            /\ localSecret[u] # peerSecret => localSecret'[u] = peerSecret'
            /\ localSecret[u] = peerSecret =>
                 /\ run'.secretSets = 0
                 /\ localSecret'[u] = localSecret[u]]_vars

\* A unit that had a secret of its own, not the peer-stored one, was handed
\* the peer-stored one by cluster-relation-changed: its one write of the local
\* secret was not the storing of a freshly generated token.
C1_Witness ==
    /\ run.event = "cluster-relation-changed"
    /\ run.secretSets = 1
    /\ Published
    /\ run.in.gen # peerSecret[1]
    /\ localSecret[run.unit] = peerSecret

\* C2: every write of the peer-stored 'shared_secret' was made by a unit for
\* which is_elected_leader held at the time of the write, and a step of a unit
\* that is not the leader (run.unit is the unit whose hook made the step)
\* changes neither the peer-stored secret nor another unit's local secret.
C2_FollowersNeverWrite ==
    /\ [](\A byLeader \in peerWriters : byLeader)
    /\ [][run'.unit # leader =>
            /\ peerSecret' = peerSecret
            /\ \A v \in Units \ {run'.unit} : localSecret'[v] = localSecret[v]]_vars

\* After a leader published, a unit with no secret of its own (it never led)
\* has handled cluster-relation-joined, and the only writers were leaders.
C2_Witness ==
    /\ run.event = "cluster-relation-joined"
    /\ localSecret[run.unit] = None
    /\ Published
    /\ peerWriters = {TRUE}

\* C3 as claimed: once a non-blank secret is published, no later event
\* replaces the peer-stored value with a different one.
C3_PublishedNeverReplaced ==
    [][Published => peerSecret' = peerSecret]_vars

\* C3, amended: once a non-blank secret is published, an event replaces the
\* peer-stored value only when the leader's local secret differs from it, and
\* what it then publishes is that leader's local secret; a leader whose local
\* secret is the peer-stored value never replaces it.
C3_LeaderKeepsOwnSecret ==
    [][(Published /\ peerSecret' # peerSecret) =>
            /\ localSecret[leader] # peerSecret
            /\ localSecret'[leader] = peerSecret'
            /\ localSecret[leader] # None => localSecret'[leader] = localSecret[leader]]_vars

\* The leader has handled cluster-relation-joined again, with the secret it
\* had, and the peer-stored value is still its secret.
C3_Witness ==
    /\ run.event = "cluster-relation-joined"
    /\ run.unit = leader
    /\ run.secretSets = 0
    /\ Published
    /\ peerWriters = {TRUE}
    /\ localSecret[leader] = peerSecret

\* Leadership is stable from some point on.
StableLeader == \E l \in Units : <>[](leader = l)

\* C4: when leadership is stable and cluster-relation-changed keeps being
\* delivered to every unit, then once a non-blank secret is published every
\* unit's local secret eventually equals the peer-stored value, and stays
\* equal to it.
C4_EventuallySynced == StableLeader => [](Published => <>[]AllSynced)

\* Every unit holds the published secret, the last of them handed it by
\* cluster-relation-changed.
C4_Witness ==
    /\ Published
    /\ AllSynced
    /\ run.event = "cluster-relation-changed"
    /\ run.unit # leader
    /\ run.secretSets >= 1

\* C5: an event with no registered handler runs no handler, changes nothing of
\* the unit or of the relations, logs a notice, runs assess_status once and
\* exits with code 0.
C5_UnknownEventIsNoOp ==
    [][\A u \in Units : \A e \in UnknownEvents :
        Dispatch(u, e, NoInput) =>
            /\ UNCHANGED <<leader, localSecret, peerSecret, peerWriters,
                           httpsSite, haRel, pc, frame>>
            /\ run'.handlers = <<>>
            /\ run'.writeAll = 0
            /\ run'.secretSets = 0
            /\ run'.cmds = <<>>
            /\ run'.logs = <<"Unknown hook " \o e \o " - skipping.">>
            /\ run'.status = 1
            /\ run'.exit = Some(0)]_vars

\* An unregistered event was dispatched after a handler had left state behind.
C5_Witness ==
    /\ run.event \in UnknownEvents
    /\ run.exit = Some(0)
    /\ run.status = 1
    /\ httpsSite[run.unit]
    /\ localSecret[run.unit] # None

\* C6 as claimed: a run that ends with a non-zero exit code has run
\* assess_status once.
C6_StatusRunsAfterFailure ==
    run.exit = Some(1) => run.status = 1

\* A run of ha_joined has returned and the process has ended normally.
HaRunDone ==
    /\ pc = "idle"
    /\ run.event = "ha-relation-joined"
    /\ run.exit = Some(0)

\* What ha_joined publishes, with inputs in, on a relation that holds nothing.
Publication(in) ==
    ha_joined_357(ha_joined_292([View(Self) EXCEPT !.rel = NoSettings], in)).rel

\* C7 as claimed: after a run of ha_joined, the resources, resource_params,
\* delete_resources and groups of the relation are those derived from that
\* run's inputs, whatever an earlier run had published.
C7_SupersedesPriorState ==
    HaRunDone =>
        \A k \in {"resources", "resource_params", "delete_resources", "groups"} :
            haRel[run.unit][k] = Publication(run.in)[k]

\* C8 as claimed: whenever the relation holds the groups of the running
\* ha_joined, it holds that run's resources and resource_params too.
C8_PayloadIsAtomic ==
    (pc = "ha_joined_357" /\ Len(frame.m.locals.vip_group) >= 1) =>
        /\ haRel[frame.unit]["resources"] = Some(frame.m.locals.resources)
        /\ haRel[frame.unit]["resource_params"] = Some(frame.m.locals.resource_params)

\* C9: ha_joined publishes, before liberty, the legacy service key and not the
\* new one, with nothing to delete; from liberty on, the new key and not the
\* legacy one, with exactly the legacy key to delete; and the haproxy key in
\* both cases.
C9_ResourceKeyByGeneration ==
    HaRunDone =>
        LET res == haRel[run.unit]["resources"][1]
            par == haRel[run.unit]["resource_params"][1]
            del == haRel[run.unit]["delete_resources"][1]
        IN  /\ HAPROXY_RES_KEY \in DOMAIN res
            /\ HAPROXY_RES_KEY \in DOMAIN par
            /\ run.in.release \in {"kilo"} =>
                 /\ LEGACY_RES_KEY \in DOMAIN res /\ LEGACY_RES_KEY \in DOMAIN par
                 /\ NEW_RES_KEY \notin DOMAIN res /\ NEW_RES_KEY \notin DOMAIN par
                 /\ del = <<>>
            /\ run.in.release \in {"liberty", "mitaka"} =>
                 /\ NEW_RES_KEY \in DOMAIN res /\ NEW_RES_KEY \in DOMAIN par
                 /\ LEGACY_RES_KEY \notin DOMAIN res /\ LEGACY_RES_KEY \notin DOMAIN par
                 /\ del = <<LEGACY_RES_KEY>>

\* ha_joined has run on liberty itself, after a run on kilo had published the
\* legacy key.
C9_Witness ==
    /\ HaRunDone
    /\ run.in.release = "liberty"
    /\ haRel[run.unit]["delete_resources"] = Some(<<LEGACY_RES_KEY>>)
    /\ NEW_RES_KEY \in DOMAIN haRel[run.unit]["resources"][1]

\* The virtual-IP resources of a resource map.
VipResources(res) == {k \in DOMAIN res : res[k] = "ocf:heartbeat:IPaddr2"}

\* The addresses of a configuration that resolve to a local interface, in the
\* configured order.
RECURSIVE Resolvable(_, _)
Resolvable(in, vips) ==
    IF vips = <<>> THEN <<>>
    ELSE IF in.ifaceOf[Head(vips)] = None THEN Resolvable(in, Tail(vips))
    ELSE <<Head(vips)>> \o Resolvable(in, Tail(vips))

\* The resource name of each address of a list of resolvable addresses.
KeysOf(in, vips) == [i \in 1..Len(vips) |-> VipKey(in.ifaceOf[vips[i]][1])]

\* C10: in virtual-IP mode the step that starts ha_joined (from pc = "idle";
\* run' holds its unit and inputs) raises no error for an address that does
\* not resolve; the groups it publishes list one member per resolvable address
\* and are not touched when no address resolves; and the virtual-IP resources
\* it publishes, in resources and in resource_params, are those of the
\* resolvable addresses, each with the parameters of such an address.
C10_UnresolvableVipsSkipped ==
    /\ [][(pc = "idle" /\ run'.event = "ha-relation-joined" /\ ~run'.in.dnsHa) =>
            LET u == run'.unit
                in == run'.in
                ok == Resolvable(in, in.vips)
            IN  /\ run'.raised = NoExc
                /\ pc' = "ha_joined_357"
                /\ ok = <<>> => haRel'[u]["groups"] = haRel[u]["groups"]
                /\ ok # <<>> =>
                     haRel'[u]["groups"] = Some(VIP_GROUP :> Join(KeysOf(in, ok)))]_vars
    /\ [](HaRunDone /\ ~run.in.dnsHa =>
            LET in == run.in
                ok == Resolvable(in, in.vips)
                res == haRel[run.unit]["resources"][1]
                par == haRel[run.unit]["resource_params"][1]
            IN  /\ VipResources(res) = Range(KeysOf(in, ok))
                /\ DOMAIN par = DOMAIN res
                /\ \A k \in VipResources(res) :
                     \E i \in 1..Len(ok) :
                        /\ k = VipKey(in.ifaceOf[ok[i]][1])
                        /\ par[k] = VipParams(in, ok[i], in.ifaceOf[ok[i]][1]))

\* ha_joined has run with two configured addresses of which only the second
\* resolves, and has published one virtual-IP resource, for that address.
C10_Witness ==
    /\ HaRunDone
    /\ ~run.in.dnsHa
    /\ Len(run.in.vips) = 2
    /\ run.in.ifaceOf[run.in.vips[1]] = None
    /\ run.in.ifaceOf[run.in.vips[2]] = Some("eth1")
    /\ VipResources(haRel[run.unit]["resources"][1]) = {VipKey("eth1")}
    /\ haRel[run.unit]["groups"] = Some(VIP_GROUP :> VipKey("eth1"))

\* The parameters ha_joined gives the service resource when a port is
\* advertised.
SslParams(port) ==
    "params amqp_server_port=\"" \o port \o "\" op monitor interval=\"30s\""

\* C11 as claimed: after ha_joined, the load-balancer resource has the 5s
\* monitor interval; the service resource has the 30s monitor interval alone
\* when no amqp unit advertises an ssl_port, and amqp_server_port set to an
\* advertised port, with the 30s interval, when some unit advertises one.
C11_AnyAdvertisedPortOverrides ==
    HaRunDone =>
        LET in == run.in
            par == haRel[run.unit]["resource_params"][1]
            advertised == {in.sslPorts[i][1] :
                              i \in {j \in 1..Len(in.sslPorts) : in.sslPorts[j] # None}}
        IN  /\ par[HAPROXY_RES_KEY] = "op monitor interval=\"5s\""
            /\ advertised = {} => par[RES_KEY(in)] = "op monitor interval=\"30s\""
            /\ advertised # {} =>
                 \E port \in advertised : par[RES_KEY(in)] = SslParams(port)

\* C12 as claimed: in one dispatch no service is restarted more than once.
C12_AtMostOneRestart ==
    run.exit # None =>
        \A i, j \in 1..Len(run.restarts) :
            i # j => run.restarts[i] # run.restarts[j]

\* A run of configure_https has ended.
ConfigureHttpsRan == run.exit # None /\ "configure_https" \in Range(run.handlers)

ToggleCommands == {"a2ensite", "a2dissite"}

\* C14 as claimed: shared-db-relation-changed with 'amqp' incomplete still
\* runs write_all, and when the site is disabled and 'https' is incomplete no
\* enable or disable command is issued.
C14_NoToggleCommand ==
    [][(pc = "idle" /\ run'.event = "shared-db-relation-changed"
            /\ ~run'.in.amqpComplete) =>
            /\ run'.writeAll >= 1
            /\ (~httpsSite[run'.unit] /\ ~run'.in.httpsComplete) =>
                 Range(run'.cmds) \cap ToggleCommands = {}]_vars

\* C14, amended: shared-db-relation-changed with 'amqp' incomplete still runs
\* write_all, and when the site is disabled and 'https' is incomplete the
\* site stays disabled and no enable command is issued; the one toggle
\* command of the dispatch is the disable command, issued first.
C14_NoToggle ==
    [][(pc = "idle" /\ run'.event = "shared-db-relation-changed"
            /\ ~run'.in.amqpComplete) =>
            /\ run'.writeAll >= 1
            /\ (~httpsSite[run'.unit] /\ ~run'.in.httpsComplete) =>
                 /\ ~httpsSite'[run'.unit]
                 /\ "a2ensite" \notin Range(run'.cmds)
                 /\ run'.cmds[1] = "a2dissite"
                 /\ \A i \in 2..Len(run'.cmds) : run'.cmds[i] \notin ToggleCommands]_vars

\* shared-db-relation-changed has run with 'amqp' and 'https' incomplete on a
\* unit whose site is disabled: the templates were written and the handler
\* returned.
C14_Witness ==
    /\ run.event = "shared-db-relation-changed"
    /\ ~run.in.amqpComplete
    /\ ~run.in.httpsComplete
    /\ run.exit = Some(0)
    /\ run.writeAll = 2
    /\ ~httpsSite[run.unit]
    /\ run.cmds = <<"a2dissite", "apache2 reload">>

\* C15 as claimed: on a unit that is not paused configure_https tries the
\* reload first, falls back to the restart only when the reload fails, and
\* ends in an error when the restart fails too.
C15_FallbackFailurePropagates ==
    (ConfigureHttpsRan /\ "restartOk" \in DOMAIN run.in) =>
        /\ run.cmds[2] = "apache2 reload"
        /\ Len(run.cmds) = 3 /\ run.cmds[3] = "apache2 restart"
        /\ ~run.in.restartOk => (run.raised # NoExc /\ run.exit = Some(1))

\* C16 as claimed: a run of cluster_changed that finds the peer-stored secret
\* absent or blank logs once, leaves the local secret alone and writes no
\* configuration.
C16_EarlyReturn ==
    [][(pc = "idle" /\ run'.event \in ClusterChangedEvents /\ ~NonBlank(peerSecret)) =>
            /\ run'.logs = <<"waiting for shared secret to be provided by leader">>
            /\ localSecret' = localSecret
            /\ run'.writeAll = 0]_vars

\* C16, amended: such a run logs once, runs cluster_changed once, leaves the
\* local secret and the peer-stored secret alone, and still calls write_all,
\* once, before it returns normally.
C16_WaitsForSecret ==
    [][(pc = "idle" /\ run'.event \in ClusterChangedEvents /\ ~NonBlank(peerSecret)) =>
            /\ run'.logs = <<"waiting for shared secret to be provided by leader">>
            /\ run'.handlers = <<"cluster_changed">>
            /\ localSecret' = localSecret
            /\ peerSecret' = peerSecret
            /\ run'.secretSets = 0
            /\ run'.writeAll = 1
            /\ run'.exit = Some(0)]_vars

\* cluster-relation-departed has found a blank peer-stored secret, and after
\* it the unit still has no local secret.
C16_Witness ==
    /\ run.event = "cluster-relation-departed"
    /\ peerSecret = Some(<<" ">>)
    /\ run.logs = <<"waiting for shared secret to be provided by leader">>
    /\ run.writeAll = 1
    /\ localSecret[run.unit] = None

ClusterEvents ==
    {"cluster-relation-joined", "cluster-relation-changed", "cluster-relation-departed"}

\* C17: a second run of cluster_joined or cluster_changed on the same unit,
\* right after a first one and with the leader, the peer-stored secret and
\* the relation data as the first run left them, changes neither the local
\* secret nor the peer-stored secret nor the ha relation, whatever token the
\* second run draws; and a second run of ha_joined with the configuration of
\* the first leaves the payload the first one published.
C17_Idempotent ==
    /\ [][(leader' = leader /\ pc = "idle" /\ pc' = "idle"
                /\ run'.event \in ClusterEvents) =>
            \A u \in Units, in2 \in GenInputs :
                u = run'.unit =>
                LET again == hooks_execute(Boot(View(u)', in2), run'.event, in2)
                IN  /\ again.raised = NoExc
                    /\ again.local = localSecret'[u]
                    /\ again.peer = peerSecret'
                    /\ again.rel = haRel'[u]]_vars
    /\ [][pc = "ha_joined_357" =>
            \A u \in Units :
                u = frame.unit =>
                LET again == ha_joined(View(u)', frame.in)
                IN  /\ again.raised = NoExc
                    /\ again.local = localSecret'[u]
                    /\ again.peer = peerSecret'
                    /\ again.rel = haRel'[u]]_vars

\* The leader has just generated and published its secret in
\* cluster_joined: the run a second cluster_joined must not undo.
C17_Witness ==
    /\ run.event = "cluster-relation-joined"
    /\ run.unit = leader
    /\ run.secretSets = 1
    /\ run.exit = Some(0)
    /\ localSecret[leader] = Some(run.in.gen)
    /\ peerSecret = localSecret[leader]

\* C18: a run of identity-notifications-relation-changed restarts the alarm
\* evaluator and then the alarm notifier, and nothing else, exactly when the
\* notification data is non-empty and holds the key
\* 'ceilometer-endpoint-changed'; otherwise it restarts no service.
C18_RestartsIffEndpointChanged ==
    run.event = "identity-notifications-relation-changed" =>
        LET key == CEILOMETER_SERVICE \o "-endpoint-changed"
        IN  /\ run.exit = Some(0)
            /\ run.handlers = <<"identity_notifications_changed">>
            /\ run.restarts =
                 IF run.in.notifications # {} /\ key \in run.in.notifications
                 THEN <<"ceilometer-alarm-evaluator", "ceilometer-alarm-notifier">>
                 ELSE <<>>

\* The endpoint of this service changed, among other notifications.
C18_Witness ==
    /\ run.event = "identity-notifications-relation-changed"
    /\ run.in.notifications =
         {CEILOMETER_SERVICE \o "-endpoint-changed", "nova-endpoint-changed"}
    /\ run.restarts = <<"ceilometer-alarm-evaluator", "ceilometer-alarm-notifier">>

\* The orders in which the members of a finite set can be listed, each once.
Orderings(S) ==
    {s \in [1..Cardinality(S) -> S] : \A i, j \in DOMAIN s : i # j => s[i] # s[j]}

\* C19 as claimed: after ha_joined in virtual-IP mode, every configured
\* address that resolves to a local interface has an entry among the
\* published resource_params whose ip parameter is that address, and when
\* some address resolves the published group is a list of the virtual-IP
\* resource names, each exactly once.
C19_EveryVipRepresented ==
    (HaRunDone /\ ~run.in.dnsHa) =>
        LET in == run.in
            ok == Resolvable(in, in.vips)
            res == haRel[run.unit]["resources"][1]
            par == haRel[run.unit]["resource_params"][1]
        IN  /\ \A n \in DOMAIN ok :
                 \E k \in DOMAIN par, i \in Ifaces : par[k] = VipParams(in, ok[n], i)
            /\ ok # <<>> =>
                 \E s \in Orderings(VipResources(res)) :
                     haRel[run.unit]["groups"] = Some(VIP_GROUP :> Join(s))

\* C20: a run of amqp-relation-departed in which 'amqp' is not a complete
\* context logs, returns normally without calling write_all, changes no
\* watched file, also when the files on disk are stale, and restarts no
\* service; a run in which 'amqp' is complete calls write_all exactly once.
C20_DepartedFrame ==
    run.event = "amqp-relation-departed" =>
        /\ run.exit = Some(0)
        /\ run.handlers = <<"amqp_departed">>
        /\ ~run.in.amqpComplete =>
             /\ run.writeAll = 0
             /\ run.changed = {}
             /\ run.restarts = <<>>
             /\ run.logs = <<"amqp relation incomplete. Peer not ready?">>
        /\ run.in.amqpComplete => run.writeAll = 1

\* The handler has returned early on a running unit whose watched files were
\* all stale: a write_all would have changed them and restarted services.
C20_Witness ==
    /\ run.event = "amqp-relation-departed"
    /\ ~run.in.amqpComplete
    /\ ~run.in.paused
    /\ run.in.stale = WatchedFiles
    /\ run.exit = Some(0)
    /\ run.restarts = <<>>

====
